---- MODULE Spec2Model ----
(***************************************************************************)
(* Model of grain_api_wrapper.py: the resumable download of the recordings *)
(* of a workspace.  One process invocation (main) is one "run": it loads   *)
(* the cursor state file, lists one page, handles each recording of the    *)
(* page, saves the cursor state, and removes it on normal completion.      *)
(* Several runs follow each other over the same file system.               *)
(***************************************************************************)
EXTENDS Integers, Sequences, FiniteSets, TLC

\* ------------------------------------------------------------- bounds
MaxPages == 3
MaxPerPage == 2
MaxRuns == 3

\* ------------------------------------------------------------- program constants
TitleCap == 50

VARIABLES
    source,           \* the workspace: a sequence of pages of recording numbers
    files,            \* the output tree: a set of [dir, name]
    ckpt,             \* the content of .cursor_state.json
    clock,            \* datetime.now(), a logical clock
    pc,               \* position of the current run
    runNo,            \* number of runs started
    cursor,           \* process_all_recordings.cursor
    starting_count,   \* main.starting_count
    total_processed,  \* process_all_recordings.total_processed
    page_num,         \* process_all_recordings.page_num
    recordings,       \* the page being processed (response["recordings"])
    nextCursor,       \* response.get("cursor") of the page being processed
    idx,              \* position of the for loop in recordings
    \* ---- history (observation only, never read by the actions' guards)
    resumed,          \* this run resumed from the cursor state file
    ckptAtStart,      \* the cursor state file as the run found it
    listed,           \* pages listed by this run, in order
    outcomes,         \* this run's handled recordings: <<[rec, out]>>
    saves,            \* processed_count of the completed saves since the file was
                      \* last removed or a run last started afresh
    raised,           \* the exception that left main, "none" if none
    lastAt,           \* pc at which the run was stopped (abort or interrupt)
    prevEnd,          \* how the previous run ended
    \* ---- save_recording_to_json, followed on its own in SpecTitle
    title,            \* recording_data.get("title", "Untitled")
    safe_title        \* the title component of the filename

vars == <<source, files, ckpt, clock, pc, runNo, cursor, starting_count,
          total_processed, page_num, recordings, nextCursor, idx, resumed,
          ckptAtStart, listed, outcomes, saves, raised, lastAt, prevEnd,
          title, safe_title>>

\* ------------------------------------------------------------- values
None == 0     \* Python None / an absent cursor

\* The recordings of the workspace.  start_datetime is absent ("none"), an
\* unparsable string ("bad") or an ISO string, given by its fields.
Catalogue ==
    << [id |-> <<"a">>,      title |-> <<"Q", "1", ":", " ">>,
        start_datetime |-> [kind |-> "iso", y |-> 2024, m |-> 3, d |-> 5]],
       [id |-> <<"a", "b">>, title |-> <<"e'", "/", "-">>,
        start_datetime |-> [kind |-> "iso", y |-> 2024, m |-> 3, d |-> 5]],
       [id |-> <<"c">>,      title |-> <<"_", "x", "!">>,
        start_datetime |-> [kind |-> "none", y |-> 0, m |-> 0, d |-> 0]] >>

RecIds == 1..Len(Catalogue)

Range(s) == {s[i] : i \in DOMAIN s}
Last(s) == s[Len(s)]
Injective(s) == \A i, j \in DOMAIN s : i # j => s[i] # s[j]
SeqsUpTo(S, n) == UNION {[1..k -> S] : k \in 0..n}

\* Every page of at most MaxPerPage recordings, a recording at most once.
PageSet == {p \in SeqsUpTo(RecIds, MaxPerPage) : Injective(p)}

RECURSIVE Flatten(_)
Flatten(pages) ==
    IF pages = <<>> THEN <<>> ELSE Head(pages) \o Flatten(Tail(pages))

\* Every workspace of 1..MaxPages pages; ids are unique in a workspace, and
\* only the last page may be empty (a cursor that leads to nothing more).
Sources ==
    {s \in SeqsUpTo(PageSet, MaxPages) :
        /\ Len(s) >= 1
        /\ Injective(Flatten(s))
        /\ \A p \in 1..(Len(s) - 1) : s[p] # <<>>}

\* ------------------------------------------------------------- the API
\* list_recordings(cursor): the page and the cursor of the next one.  The
\* cursor of page p+1 is the token p+1; the last page carries no cursor.
PageOf(c) == IF c = None THEN 1 ELSE c
ListPage(c) ==
    [recordings |-> source[PageOf(c)],
     cursor |-> IF PageOf(c) < Len(source) THEN PageOf(c) + 1 ELSE None]

\* ------------------------------------------------------------- strings
StartsWith(f, p) == Len(f) >= Len(p) /\ SubSeq(f, 1, Len(p)) = p

AsciiAlnum == {"Q", "x", "a", "b", "c", "1"}
NonAsciiAlnum == {"e'"}                       \* str.isalnum() is Unicode-aware
Whitespace == {" "}
IsAlnum(c) == c \in AsciiAlnum \cup NonAsciiAlnum

RECURSIVE RStrip(_)
RStrip(s) ==
    IF s # <<>> /\ s[Len(s)] \in Whitespace
    THEN RStrip(SubSeq(s, 1, Len(s) - 1)) ELSE s

Keep(c) == IsAlnum(c) \/ c \in {" ", "-", "_"}
SafeTitle(t) ==
    LET kept == SelectSeq(t, Keep)
        stripped == RStrip(kept)
    IN  SubSeq(stripped, 1, IF Len(stripped) < TitleCap THEN Len(stripped) ELSE TitleCap)

RECURSIVE Digits(_)
Digits(n) == IF n < 10 THEN <<n>> ELSE Digits(n \div 10) \o <<n % 10>>
Pad2(n) == IF n < 10 THEN <<0, n>> ELSE Digits(n)

\* datetime.fromisoformat(s.replace("Z", "+00:00")): the fields, or a failure.
ParseOk(sd) == sd.kind = "iso"
DatePath(root, sd) == root \o <<Digits(sd.y), Pad2(sd.m), Pad2(sd.d)>>

OutputDir == <<"recordings">>

\* save_recording_to_json: the directory and the file name of an artifact.
ArtifactDir(r) ==
    IF r.start_datetime.kind # "none" /\ ParseOk(r.start_datetime)
    THEN DatePath(OutputDir, r.start_datetime)
    ELSE OutputDir
ArtifactName(r) == r.id \o <<"_">> \o SafeTitle(r.title) \o <<".json">>
ArtifactPath(r) == [dir |-> ArtifactDir(r), name |-> ArtifactName(r)]

\* process_recording, lines 276-307: the test for "already downloaded".  A
\* directory holds entries only when a file was written below it (a directory
\* that makedirs created for a write that then failed lists nothing, which the
\* test cannot tell from a directory that does not exist).
DirExists(d) == \E f \in files : StartsWith(f.dir, d)
ListDir(d) == {f.name : f \in {g \in files : g.dir = d}}
AlreadyDownloaded(r) ==
    /\ r.start_datetime.kind # "none"
    /\ DirExists(OutputDir)
    /\ ParseOk(r.start_datetime)
    /\ DirExists(DatePath(OutputDir, r.start_datetime))
    /\ \E f \in ListDir(DatePath(OutputDir, r.start_datetime)) : StartsWith(f, r.id)

\* ------------------------------------------------------------- cursor state file
Absent == [kind |-> "absent", cursor |-> None, processed_count |-> 0, timestamp |-> 0]
Torn == [kind |-> "torn", cursor |-> None, processed_count |-> 0, timestamp |-> 0]
State(c, n, t) == [kind |-> "valid", cursor |-> c, processed_count |-> n, timestamp |-> t]

\* A file that json.load parses to an object without one of the three keys.
Lacking == {"no_cursor", "no_processed_count", "no_timestamp"}
Parseable == {"valid"} \cup Lacking

\* load_cursor_state: what json.load returns, or None when the file is absent
\* or json.load raises.
load_cursor_state == IF ckpt.kind \in Parseable THEN ckpt ELSE Absent

NoEnd == [how |-> "none", at |-> "none", page |-> 0, clean |-> TRUE]

Errors == {"notfound", "transport", "ioerror"}
RunClean == \A i \in DOMAIN outcomes : outcomes[i].out \notin Errors

Init ==
    /\ source \in Sources
    /\ files = {}
    /\ ckpt = Absent
    /\ clock = 1
    /\ pc = "idle"
    /\ runNo = 0
    /\ cursor = None
    /\ starting_count = 0
    /\ total_processed = 0
    /\ page_num = 1
    /\ recordings = <<>>
    /\ nextCursor = None
    /\ idx = 1
    /\ resumed = FALSE
    /\ ckptAtStart = Absent
    /\ listed = <<>>
    /\ outcomes = <<>>
    /\ saves = <<>>
    /\ raised = "none"
    /\ lastAt = "none"
    /\ prevEnd = NoEnd
    /\ title = <<>>
    /\ safe_title = <<>>

Stopped == {"idle", "done", "aborted", "killed"}

\* main, lines 256-261: the keys main reads from the loaded state, in order;
\* a missing one raises KeyError, outside every try block.
KeyErrorAt(cursor_state, answer) ==
    \/ cursor_state.kind = "no_timestamp"
    \/ cursor_state.kind = "no_processed_count"
    \/ cursor_state.kind = "no_cursor" /\ answer

\* main, lines 262-265: the file after the operator declined to resume.
NotRemoved == ckpt
Removed == Absent

\* main, lines 206-265 and the entry of process_all_recordings, lines 90-92.
StartRun ==
    /\ pc \in Stopped
    /\ runNo < MaxRuns
    /\ \E answer \in BOOLEAN :
         LET cursor_state == load_cursor_state
             found == cursor_state.kind # "absent"
             failed == found /\ KeyErrorAt(cursor_state, answer)
             resume == found /\ answer /\ ~failed
         IN  /\ cursor' = IF resume THEN cursor_state.cursor ELSE None
             /\ starting_count' = IF resume THEN cursor_state.processed_count ELSE 0
             /\ ckpt' = IF found /\ ~answer /\ ~failed THEN Removed ELSE ckpt
             /\ saves' = IF resume THEN saves ELSE <<>>
             /\ resumed' = resume
             /\ ckptAtStart' = ckpt
             /\ raised' = IF failed THEN "keyerror" ELSE "none"
             /\ lastAt' = IF failed THEN "start" ELSE "none"
             /\ pc' = IF failed THEN "aborted" ELSE "listing"
    /\ prevEnd' = [how |-> pc, at |-> lastAt,
                   page |-> IF listed = <<>> THEN 0 ELSE listed[Len(listed)],
                   clean |-> RunClean]
    /\ runNo' = runNo + 1
    /\ total_processed' = 0
    /\ page_num' = 1
    /\ recordings' = <<>>
    /\ nextCursor' = None
    /\ idx' = 1
    /\ listed' = <<>>
    /\ outcomes' = <<>>
    /\ UNCHANGED <<title, safe_title>>
    /\ UNCHANGED <<source, files, clock>>

\* process_all_recordings, lines 95-102: list_recordings answers.
ListOk ==
    /\ pc = "listing"
    /\ LET response == ListPage(cursor)
       IN  /\ recordings' = response.recordings
           /\ nextCursor' = response.cursor
           /\ pc' = IF response.recordings = <<>> THEN "returned" ELSE "record"
    /\ listed' = Append(listed, PageOf(cursor))
    /\ idx' = 1
    /\ UNCHANGED <<title, safe_title>>
    /\ UNCHANGED <<source, files, ckpt, clock, runNo, cursor, starting_count,
                   total_processed, page_num, resumed, ckptAtStart, outcomes,
                   saves, raised, lastAt, prevEnd>>

\* process_all_recordings, line 96: list_recordings raises (requests error or
\* raise_for_status); nothing in process_all_recordings catches it and main,
\* lines 330-333, reports it and raises it again.
ListFailRemovesState ==
    /\ pc = "listing"
    /\ pc' = "aborted"
    /\ raised' = "transport"
    /\ lastAt' = pc
    /\ ckpt' = Absent
    /\ UNCHANGED <<title, safe_title>>
    /\ UNCHANGED <<source, files, clock, runNo, cursor, starting_count,
                   total_processed, page_num, recordings, nextCursor, idx,
                   resumed, ckptAtStart, listed, outcomes, saves, prevEnd>>
ListFail ==
    /\ pc = "listing"
    /\ pc' = "aborted"
    /\ raised' = "transport"
    /\ lastAt' = pc
    /\ UNCHANGED <<title, safe_title>>
    /\ UNCHANGED <<source, files, ckpt, clock, runNo, cursor, starting_count,
                   total_processed, page_num, recordings, nextCursor, idx,
                   resumed, ckptAtStart, listed, outcomes, saves, prevEnd>>

\* What the handler does with one recording: the existence test, then
\* get_recording (fetch) and save_recording_to_json (write).
FetchResults == {"ok", "notfound", "transport"}
WriteResults == {"ok", "ioerror"}
Outcome(r, fetch, write) ==
    IF AlreadyDownloaded(r) THEN "skipped"
    ELSE IF fetch # "ok" THEN fetch
    ELSE IF write # "ok" THEN write
    ELSE "persisted"

\* process_recording, lines 316-317: except Exception catches every failure
\* of the fetch and of the write.
CaughtOnlyIOError(e) == e = "ioerror"
Caught(e) == e \in Errors

\* process_all_recordings, line 106: total_processed += 1, after the handler
\* returned, whatever it did.
NewTotalUnlessSkipped(total, out) == IF out = "skipped" THEN total ELSE total + 1
NewTotal(total, out) == total + 1

\* process_all_recordings, lines 104-106, with the callback process_recording,
\* lines 267-317, on recordings[idx].
ProcessRecording ==
    /\ pc = "record"
    /\ \E fetch \in FetchResults, write \in WriteResults :
         LET r == Catalogue[recordings[idx]]
             out == Outcome(r, fetch, write)
         IN  /\ files' = IF out = "persisted" THEN files \cup {ArtifactPath(r)} ELSE files
             /\ outcomes' = Append(outcomes, [rec |-> recordings[idx], out |-> out])
             /\ IF out \in Errors /\ ~Caught(out)
                THEN /\ pc' = "aborted"
                     /\ raised' = out
                     /\ lastAt' = pc
                     /\ UNCHANGED <<total_processed, idx>>
                ELSE /\ total_processed' = NewTotal(total_processed, out)
                     /\ idx' = idx + 1
                     /\ pc' = IF idx = Len(recordings) THEN "pageend" ELSE "record"
                     /\ UNCHANGED <<raised, lastAt>>
    /\ UNCHANGED <<title, safe_title>>
    /\ UNCHANGED <<source, ckpt, clock, runNo, cursor, starting_count, page_num,
                   recordings, nextCursor, resumed, ckptAtStart, listed, saves,
                   prevEnd>>

\* process_all_recordings, lines 109-111: the page carried no cursor.
NoNextCursor ==
    /\ pc = "pageend"
    /\ nextCursor = None
    /\ cursor' = nextCursor
    /\ pc' = "returned"
    /\ UNCHANGED <<title, safe_title>>
    /\ UNCHANGED <<source, files, ckpt, clock, runNo, starting_count,
                   total_processed, page_num, recordings, nextCursor, idx,
                   resumed, ckptAtStart, listed, outcomes, saves, raised,
                   lastAt, prevEnd>>

\* process_all_recordings, lines 109-114, and save_cursor_state, line 132:
\* open(filename, "w") truncates the file before anything is written.
SaveOpenAlways ==
    /\ pc = "pageend"
    /\ cursor' = nextCursor
    /\ ckpt' = Torn
    /\ pc' = "saving"
    /\ UNCHANGED <<title, safe_title>>
    /\ UNCHANGED <<source, files, clock, runNo, starting_count, total_processed,
                   page_num, recordings, nextCursor, idx, resumed, ckptAtStart,
                   listed, outcomes, saves, raised, lastAt, prevEnd>>
SaveOpen ==
    /\ pc = "pageend"
    /\ nextCursor # None
    /\ cursor' = nextCursor
    /\ ckpt' = Torn
    /\ pc' = "saving"
    /\ UNCHANGED <<title, safe_title>>
    /\ UNCHANGED <<source, files, clock, runNo, starting_count, total_processed,
                   page_num, recordings, nextCursor, idx, resumed, ckptAtStart,
                   listed, outcomes, saves, raised, lastAt, prevEnd>>

\* save_cursor_state, line 132: open raises (OSError); nothing catches it
\* before main, lines 330-333.
SaveFailSwallowed ==
    /\ pc = "pageend"
    /\ nextCursor # None
    /\ cursor' = nextCursor
    /\ pc' = "returned"
    /\ UNCHANGED <<title, safe_title>>
    /\ UNCHANGED <<source, files, ckpt, clock, runNo, starting_count,
                   total_processed, page_num, recordings, nextCursor, idx,
                   resumed, ckptAtStart, listed, outcomes, saves, raised,
                   lastAt, prevEnd>>
SaveFail ==
    /\ pc = "pageend"
    /\ nextCursor # None
    /\ cursor' = nextCursor
    /\ pc' = "aborted"
    /\ raised' = "ioerror"
    /\ lastAt' = pc
    /\ UNCHANGED <<title, safe_title>>
    /\ UNCHANGED <<source, files, ckpt, clock, runNo, starting_count,
                   total_processed, page_num, recordings, nextCursor, idx,
                   resumed, ckptAtStart, listed, outcomes, saves, prevEnd>>

\* process_all_recordings, lines 115-122: page_num += 1, the sleep, and the
\* unconditional break of line 120, which leaves the loop after every page.
AfterCheckpoint == "returned"

\* save_cursor_state, lines 127-134: the state is written and the file closed.
SaveWriteStaleCursor ==
    /\ pc = "saving"
    /\ ckpt' = State(IF Last(listed) = 1 THEN None ELSE Last(listed),
                     total_processed, clock)
    /\ clock' = clock + 1
    /\ saves' = Append(saves, total_processed)
    /\ page_num' = page_num + 1
    /\ pc' = AfterCheckpoint
    /\ UNCHANGED <<title, safe_title>>
    /\ UNCHANGED <<source, files, runNo, cursor, starting_count, total_processed,
                   recordings, nextCursor, idx, resumed, ckptAtStart, listed,
                   outcomes, raised, lastAt, prevEnd>>
SaveWrite ==
    /\ pc = "saving"
    /\ ckpt' = State(cursor, total_processed, clock)
    /\ clock' = clock + 1
    /\ saves' = Append(saves, total_processed)
    /\ page_num' = page_num + 1
    /\ pc' = AfterCheckpoint
    /\ UNCHANGED <<title, safe_title>>
    /\ UNCHANGED <<source, files, runNo, cursor, starting_count, total_processed,
                   recordings, nextCursor, idx, resumed, ckptAtStart, listed,
                   outcomes, raised, lastAt, prevEnd>>

\* save_cursor_state, line 133: json.dump (or the close that flushes it)
\* raises OSError after the file was truncated; as for SaveFail, the exception
\* leaves main.
SaveWriteFail ==
    /\ pc = "saving"
    /\ pc' = "aborted"
    /\ raised' = "ioerror"
    /\ lastAt' = pc
    /\ UNCHANGED <<title, safe_title>>
    /\ UNCHANGED <<source, files, ckpt, clock, runNo, cursor, starting_count,
                   total_processed, page_num, recordings, nextCursor, idx,
                   resumed, ckptAtStart, listed, outcomes, saves, prevEnd>>

\* main, lines 321-328: process_all_recordings returned; the cursor state
\* file is removed if it exists.
CleanupKeepsFile ==
    /\ pc = "returned"
    /\ pc' = "done"
    /\ UNCHANGED <<title, safe_title>>
    /\ UNCHANGED <<source, files, ckpt, clock, runNo, cursor, starting_count,
                   total_processed, page_num, recordings, nextCursor, idx,
                   resumed, ckptAtStart, listed, outcomes, saves, raised,
                   lastAt, prevEnd>>
Cleanup ==
    /\ pc = "returned"
    /\ ckpt' = Absent
    /\ saves' = <<>>
    /\ pc' = "done"
    /\ UNCHANGED <<title, safe_title>>
    /\ UNCHANGED <<source, files, clock, runNo, cursor, starting_count,
                   total_processed, page_num, recordings, nextCursor, idx,
                   resumed, ckptAtStart, listed, outcomes, raised, lastAt,
                   prevEnd>>

\* The process is interrupted (KeyboardInterrupt, kill, power loss): no
\* handler of the program catches it, the run stops where it is.
Running == {"listing", "record", "pageend", "saving", "returned"}
Interrupt ==
    /\ pc \in Running
    /\ pc' = "killed"
    /\ lastAt' = pc
    /\ UNCHANGED <<title, safe_title>>
    /\ UNCHANGED <<source, files, ckpt, clock, runNo, cursor, starting_count,
                   total_processed, page_num, recordings, nextCursor, idx,
                   resumed, ckptAtStart, listed, outcomes, saves, raised,
                   prevEnd>>

Next ==
    \/ StartRun
    \/ ListOk
    \/ ListFail
    \/ ProcessRecording
    \/ NoNextCursor
    \/ SaveOpen
    \/ SaveFail
    \/ SaveWrite
    \/ SaveWriteFail
    \/ Cleanup
    \/ Interrupt

\* ============================================================= claims
StartPage == IF resumed THEN ckptAtStart.cursor ELSE 1
Listed(rec) == rec \in Range(Flatten(source))
ArtifactsOf(rec) ==
    {f \in files : StartsWith(f.name, Catalogue[rec].id \o <<"_">>)}
HasArtifact(rec) == ArtifactPath(Catalogue[rec]) \in files

\* C1 - Idempotence: after two runs to completion over the same workspace and
\* output tree, neither with a failed fetch or write, every recording of the
\* workspace has exactly one artifact file, and the second run fetched and
\* wrote nothing: each of its recordings was skipped by the existence test.
C1_Idempotence ==
    (runNo = 2 /\ pc = "done" /\ prevEnd.how = "done" /\ prevEnd.clean /\ RunClean)
        => /\ \A rec \in RecIds : Listed(rec) => Cardinality(ArtifactsOf(rec)) = 1
           /\ \A i \in DOMAIN outcomes : outcomes[i].out = "skipped"

\* C2 - Resume correctness: when the previous run stopped in the middle of
\* page k+1 with the cursor state of page boundary k on disk, and this run
\* resumed from that state and finished without a failed fetch or write, it
\* started at page k+1 and every recording of page k+1 and of every later page
\* has its artifact.
C2_ResumeCorrectness ==
    (/\ pc = "done" /\ resumed /\ RunClean
     /\ prevEnd.how \in {"killed", "aborted"} /\ prevEnd.at = "record"
     /\ prevEnd.page = StartPage)
        => /\ listed # <<>> /\ listed[1] = StartPage
           /\ \A p \in StartPage..Len(source) :
                \A i \in DOMAIN source[p] : HasArtifact(source[p][i])

\* C3 - Monotonic progress: over runs that each resume from the stored cursor
\* state, the processed_count of every save is at least the one of the save
\* before it, as long as the file was not removed in between.
C3_MonotonicProgress ==
    \A i \in DOMAIN saves : i > 1 => saves[i - 1] <= saves[i]

\* C4 - The cursor state file is removed only on a fully successful run:
\* whenever a step removes it, the run has listed a page that was empty or
\* carried no next cursor.
Exhausted == listed # <<>> /\ (recordings = <<>> \/ nextCursor = None)
C4_RemovedOnlyWhenExhausted ==
    [][(ckpt.kind # "absent" /\ ckpt'.kind = "absent") => Exhausted']_vars

\* C5 - Full pagination: a run that completes without a failed fetch or write
\* has listed the pages from its first one on, in order, up to a page that is
\* empty or carries no next cursor, and has handled every recording of them.
C5_FullPagination ==
    (pc = "done" /\ RunClean)
        => /\ \A i \in DOMAIN listed : listed[i] = StartPage + i - 1
           /\ (Last(listed) = Len(source) \/ source[Last(listed)] = <<>>)
           /\ Len(outcomes) = Len(Flatten(SubSeq(source, StartPage, Last(listed))))

\* C6 - Terminal condition: once a run, fresh or resumed, has listed a page
\* with no recordings and no cursor, it only goes on to completion, it has
\* fetched and written nothing, and when it is done no cursor state file
\* exists, whatever the file was before the run.
C6_EmptyPageEndsRun ==
    (listed # <<>> /\ recordings = <<>> /\ nextCursor = None)
        => /\ pc \in {"returned", "done", "killed"}
           /\ raised = "none"
           /\ outcomes = <<>>
           /\ pc = "done" => ckpt.kind = "absent"
C6_Witness ==
    /\ pc = "done" /\ resumed /\ ckptAtStart.kind = "valid"
    /\ listed # <<>> /\ recordings = <<>> /\ nextCursor = None
    /\ ckpt.kind = "absent"

\* C7 - Skip semantics: a detail fetch that fails with NotFoundError writes no
\* artifact and does not abort the run; the loop goes on to the next recording
\* of the page, so that at the end of the page every recording of it has been
\* handled, in page order, and the page is checkpointed when it carries a
\* next cursor.
C7_NotFoundStep ==
    (pc = "record" /\ Len(outcomes') = Len(outcomes) + 1
                   /\ Last(outcomes').out = "notfound")
        => /\ files' = files
           /\ ckpt' = ckpt
           /\ raised' = "none"
           /\ total_processed' = total_processed + 1
           /\ idx' = idx + 1
           /\ pc' = IF idx = Len(recordings) THEN "pageend" ELSE "record"
C7_PageHandled ==
    (pc \in {"pageend", "saving", "returned", "done"} /\ recordings # <<>>)
        => /\ Len(outcomes) = Len(recordings)
           /\ \A i \in DOMAIN outcomes : outcomes[i].rec = recordings[i]
           /\ (pc = "returned" /\ nextCursor # None)
                => ckpt = State(nextCursor, Len(recordings), ckpt.timestamp)
C7_SkipSemantics == []C7_PageHandled /\ [][C7_NotFoundStep]_vars
C7_Witness ==
    /\ pc = "returned" /\ ckpt.kind = "valid"
    /\ \E i, j \in DOMAIN outcomes :
         i < j /\ outcomes[i].out = "notfound" /\ outcomes[j].out = "persisted"

\* C8 - A detail fetch that fails with TransportError aborts the run: it is
\* the last recording the run handles, the failure leaves main, and the
\* cursor state file is the one the run found.
C8_TransportAborts ==
    \A i \in DOMAIN outcomes :
        outcomes[i].out = "transport"
            => /\ i = Len(outcomes)
               /\ pc = "aborted"
               /\ raised = "transport"
               /\ ckpt = ckptAtStart

\* C9 - A listing that fails with TransportError ends the run aborted, with
\* the failure leaving main, and it neither removes nor rewrites the cursor
\* state file: a run that resumed from the file leaves it as it found it.
C9_ListFailStep ==
    (pc = "listing" /\ raised' # "none")
        => /\ pc' = "aborted"
           /\ raised' = "transport"
           /\ ckpt' = ckpt
           /\ files' = files
C9_AbortedKeepsState ==
    (pc = "aborted" /\ lastAt = "listing")
        => /\ raised = "transport"
           /\ resumed => (ckpt = ckptAtStart /\ ckpt.kind = "valid")
C9_ListFailureKeepsCheckpoint == []C9_AbortedKeepsState /\ [][C9_ListFailStep]_vars
C9_Witness ==
    /\ pc = "aborted" /\ lastAt = "listing" /\ raised = "transport"
    /\ resumed /\ ckpt.kind = "valid" /\ ckpt = ckptAtStart

\* C10 - Crash-consistent cursor state: whenever the process has stopped, by
\* completion, failure or interruption, the cursor state file is absent or
\* holds a complete state; a later run never finds a half-written file.
C10_CrashConsistent ==
    pc \in Stopped => ckpt.kind \in {"absent", "valid"}

\* C12 - The cursor state is saved only at page boundaries: a step that
\* writes the file happens with the loop past the last recording of the page
\* just listed, every recording of that page handled in page order, and the
\* state it writes holds the next cursor the listing returned with that page
\* and the count of the recordings handled.
NextCursorOf(p) == IF p < Len(source) THEN p + 1 ELSE None
C12_SaveStep ==
    (ckpt' # ckpt /\ ckpt'.kind \in {"torn", "valid"})
        => /\ pc \in {"pageend", "saving"}
           /\ recordings # <<>>
           /\ idx = Len(recordings) + 1
           /\ Len(outcomes) >= Len(recordings)
           /\ \A i \in DOMAIN recordings :
                outcomes[Len(outcomes) - Len(recordings) + i].rec = recordings[i]
           /\ ckpt'.kind = "valid"
                => /\ ckpt'.cursor = NextCursorOf(Last(listed))
                   /\ ckpt'.processed_count = total_processed
C12_SavedAtPageBoundary == [][C12_SaveStep]_vars
C12_Witness ==
    /\ pc = "returned" /\ ckpt.kind = "valid" /\ ckpt.timestamp = clock - 1
    /\ Len(recordings) >= 2 /\ Len(outcomes) = Len(recordings)
    /\ ckpt.cursor = nextCursor

\* C13 - The existence test keys on the id followed by an underscore: a
\* recording with a date partition is reported as already downloaded exactly
\* when that directory holds a file whose name starts with its id and "_"; a
\* file written for a recording whose id merely begins with this id does not
\* count.
C13_KeysOnIdUnderscore ==
    \A rec \in RecIds :
        LET r == Catalogue[rec]
        IN  ParseOk(r.start_datetime)
                => (AlreadyDownloaded(r)
                      <=> \E f \in ListDir(DatePath(OutputDir, r.start_datetime)) :
                              StartsWith(f, r.id \o <<"_">>))

\* C14 - Degraded-mode existence test: a recording whose start_datetime is
\* absent or unparsable and whose artifact an earlier run stored in the flat
\* output root is reported as already downloaded: handling it neither fetches
\* nor writes.
Undated(r) == r.start_datetime.kind = "none" \/ ~ParseOk(r.start_datetime)
StoredInRoot(r) == \E f \in ListDir(OutputDir) : StartsWith(f, r.id \o <<"_">>)
C14_DegradedStep ==
    (/\ pc = "record"
     /\ Len(outcomes') = Len(outcomes) + 1
     /\ Undated(Catalogue[recordings[idx]])
     /\ StoredInRoot(Catalogue[recordings[idx]]))
        => /\ Last(outcomes').out = "skipped"
           /\ files' = files
C14_DegradedModeSkips == [][C14_DegradedStep]_vars

\* C15 - A failed save of the cursor state is fatal, a failed write of an
\* artifact is not: at the end of a page with a next cursor the run either
\* writes the file or ends aborted, with the failure leaving main and the file
\* left as it was (not removed); a run never returns from such a page without
\* the state on disk.  A failed artifact write is logged, writes nothing, and
\* the loop goes on to the next recording of the page.
C15_SaveStep ==
    /\ (pc = "pageend" /\ nextCursor # None /\ pc' \notin {"pageend", "killed"})
          => \/ pc' = "saving" /\ raised' = "none"
             \/ pc' = "aborted" /\ raised' = "ioerror" /\ ckpt' = ckpt
    /\ (pc = "saving" /\ pc' \notin {"saving", "killed"})
          => \/ pc' = "returned" /\ raised' = "none" /\ ckpt'.kind = "valid"
             \/ pc' = "aborted" /\ raised' = "ioerror" /\ ckpt' = ckpt
C15_ArtifactStep ==
    (pc = "record" /\ Len(outcomes') = Len(outcomes) + 1
                   /\ Last(outcomes').out = "ioerror")
        => /\ files' = files
           /\ raised' = "none"
           /\ idx' = idx + 1
           /\ pc' = IF idx = Len(recordings) THEN "pageend" ELSE "record"
C15_SavedOrAborted ==
    /\ (pc = "aborted" /\ lastAt \in {"pageend", "saving"})
          => /\ raised = "ioerror"
             /\ idx = Len(recordings) + 1
             /\ (lastAt = "pageend" /\ resumed) => ckpt = ckptAtStart
    /\ (pc = "returned" /\ recordings # <<>> /\ nextCursor # None)
          => ckpt.kind = "valid" /\ ckpt.cursor = nextCursor
C15_SaveFailureFatal ==
    []C15_SavedOrAborted /\ [][C15_SaveStep /\ C15_ArtifactStep]_vars
C15_Witness ==
    /\ pc = "aborted" /\ lastAt = "pageend" /\ raised = "ioerror"
    /\ resumed /\ ckpt.kind = "valid"
    /\ \E i, j \in DOMAIN outcomes :
         i < j /\ outcomes[i].out = "ioerror" /\ outcomes[j].out = "persisted"

\* C17 - Processed total: the handler is invoked once for each listed record,
\* in page order, and the total grows by exactly 1 per record whatever the
\* outcome; the total a run returns is the number of records it listed.
ListedRecords == Flatten([i \in DOMAIN listed |-> source[listed[i]]])
Handled == [i \in DOMAIN outcomes |-> outcomes[i].rec]
C17_HandlerStep ==
    (pc = "record" /\ outcomes' # outcomes)
        => /\ outcomes' = Append(outcomes, Last(outcomes'))
           /\ Last(outcomes').rec = recordings[idx]
           /\ total_processed' = total_processed + 1
C17_TotalIsHandled ==
    /\ total_processed = Len(outcomes)
    /\ Len(Handled) <= Len(ListedRecords)
    /\ Handled = SubSeq(ListedRecords, 1, Len(Handled))
    /\ pc \in {"pageend", "saving", "returned", "done"}
          => Handled = ListedRecords /\ total_processed = Len(ListedRecords)
C17_ProcessedTotal == []C17_TotalIsHandled /\ [][C17_HandlerStep]_vars
C17_Witness ==
    /\ pc = "returned"
    /\ total_processed = 2
    /\ \E i, j \in DOMAIN outcomes :
         outcomes[i].out = "skipped" /\ outcomes[j].out \in Errors

\* C18 - The cursor of a written cursor state is never empty: it is the next
\* cursor the source returned for some page; nothing is written for the page
\* that carries no next cursor, so a resumed run never lists the first page.
C18_FinalPageStep ==
    (pc = "pageend" /\ nextCursor = None)
        => ckpt' = ckpt /\ pc' \in {"pageend", "returned", "killed"}
C18_CursorHeld ==
    /\ ckpt.kind = "valid"
          => /\ ckpt.cursor # None
             /\ \E p \in DOMAIN source : ckpt.cursor = NextCursorOf(p)
    /\ (resumed /\ listed # <<>>) => listed[1] # 1 /\ listed[1] = ckptAtStart.cursor
C18_CursorNeverEmpty == []C18_CursorHeld /\ [][C18_FinalPageStep]_vars
C18_Witness ==
    /\ pc = "returned" /\ resumed
    /\ recordings # <<>> /\ nextCursor = None
    /\ ckpt.kind = "valid" /\ ckpt = ckptAtStart

\* C19 - Declined resume: a run that finds a cursor state and is told not to
\* resume removes the file before it lists anything, starts from no cursor
\* with a starting count of 0, and leaves the artifacts as they were.
C19_DeclineStep ==
    (pc \in Stopped /\ runNo' = runNo + 1 /\ ckpt.kind = "valid" /\ ~resumed')
        => /\ ckpt' = Absent
           /\ cursor' = None
           /\ starting_count' = 0
           /\ files' = files
           /\ listed' = <<>>
           /\ pc' = "listing"
C19_Declined ==
    (pc = "listing" /\ ~resumed /\ ckptAtStart.kind = "valid")
        => ckpt = Absent /\ cursor = None /\ starting_count = 0 /\ listed = <<>>
C19_DeclinedResume == []C19_Declined /\ [][C19_DeclineStep]_vars
C19_Witness ==
    /\ pc = "listing" /\ ~resumed
    /\ ckptAtStart.kind = "valid" /\ ckpt.kind = "absent"
    /\ files # {}

\* ------------------------------------------------------------- any file content
\* The first run finds a cursor state file that is not a complete state:
\* unparsable text, or an object that lacks one key.
LackingFile(k) ==
    [kind |-> k,
     cursor |-> IF k = "no_cursor" THEN None ELSE 2,
     processed_count |-> IF k = "no_processed_count" THEN 0 ELSE 1,
     timestamp |-> IF k = "no_timestamp" THEN 0 ELSE 1]
CorruptContents == {Torn} \cup {LackingFile(k) : k \in Lacking}
InitCorruptFile ==
    /\ source \in Sources
    /\ files = {}
    /\ ckpt \in CorruptContents
    /\ clock = 1
    /\ pc = "idle"
    /\ runNo = 0
    /\ cursor = None
    /\ starting_count = 0
    /\ total_processed = 0
    /\ page_num = 1
    /\ recordings = <<>>
    /\ nextCursor = None
    /\ idx = 1
    /\ resumed = FALSE
    /\ ckptAtStart = Absent
    /\ listed = <<>>
    /\ outcomes = <<>>
    /\ saves = <<>>
    /\ raised = "none"
    /\ lastAt = "none"
    /\ prevEnd = NoEnd
    /\ title = <<>>
    /\ safe_title = <<>>

\* C11 - A corrupt cursor state is never fatal: a run that finds a file that
\* is not a complete state (unparsable, or an object lacking a key) starts
\* afresh, from no cursor and with nothing raised.
C11_CorruptNeverFatal ==
    [][(pc \in Stopped /\ runNo' = runNo + 1 /\ ckpt.kind \notin {"absent", "valid"})
          => /\ pc' = "listing"
             /\ raised' = "none"
             /\ ~resumed'
             /\ cursor' = None]_vars

\* ------------------------------------------------------------- any title
\* save_recording_to_json, lines 174-180, on its own: a call with any title
\* over an alphabet of a letter, a digit, the three kept marks, punctuation
\* and a non-ASCII letter; the long titles are the short ones behind a run of
\* letters that brings them across the cut at TitleCap.
MaxTitleLen == 3
TitleAlphabet == {"Q", "1", " ", "-", "_", ":", "e'"}
Filler == [i \in 1..(TitleCap - 2) |-> "x"]
ShortTitles == SeqsUpTo(TitleAlphabet, MaxTitleLen)
Titles == ShortTitles \cup {Filler \o t : t \in ShortTitles}
InitTitle ==
    /\ title \in Titles
    /\ safe_title = <<>>
    /\ pc = "title"
    /\ source = <<<<>>>>
    /\ files = {}
    /\ ckpt = Absent
    /\ clock = 1
    /\ runNo = 0
    /\ cursor = None
    /\ starting_count = 0
    /\ total_processed = 0
    /\ page_num = 1
    /\ recordings = <<>>
    /\ nextCursor = None
    /\ idx = 1
    /\ resumed = FALSE
    /\ ckptAtStart = Absent
    /\ listed = <<>>
    /\ outcomes = <<>>
    /\ saves = <<>>
    /\ raised = "none"
    /\ lastAt = "none"
    /\ prevEnd = NoEnd
SanitizeTitle ==
    /\ pc = "title"
    /\ safe_title' = SafeTitle(title)
    /\ pc' = "named"
    /\ UNCHANGED <<title, source, files, ckpt, clock, runNo, cursor,
                   starting_count, total_processed, page_num, recordings,
                   nextCursor, idx, resumed, ckptAtStart, listed, outcomes,
                   saves, raised, lastAt, prevEnd>>
NextTitle == SanitizeTitle

\* C16 - Filename sanitization: the title component of a filename holds only
\* characters of [A-Za-z0-9 _-], has no leading or trailing whitespace, and is
\* at most TitleCap characters long.
C16_CleanTitle ==
    pc = "named" =>
        /\ \A i \in DOMAIN safe_title : safe_title[i] \in AsciiAlnum \cup {" ", "-", "_"}
        /\ safe_title # <<>> =>
               safe_title[1] \notin Whitespace /\ Last(safe_title) \notin Whitespace
        /\ Len(safe_title) <= TitleCap

Spec == Init /\ [][Next]_vars
SpecTitle == InitTitle /\ [][NextTitle]_vars
SpecCorruptFile == InitCorruptFile /\ [][Next]_vars
====
